---- MODULE Spec2Model ----
(***************************************************************************)
(* Model of solution.py: class Earthquakes.  One process constructs an     *)
(* instance and calls log_earthquakes, which fetches the USGS feed,        *)
(* reverses it, filters it with one geocoder lookup per entry, and prints  *)
(* one line per filtered entry.  The unused text-match filter              *)
(* (_filter_earthquakes) is modelled as a second specification.            *)
(*                                                                         *)
(* Text is a sequence of one-character strings.  A JSON value is a tagged  *)
(* record: [t |-> "null"], [t |-> "int", v |-> n], [t |-> "str", s |-> q], *)
(* [t |-> "float", whole |-> n, frac |-> digits].                          *)
(***************************************************************************)
EXTENDS Integers, Sequences, FiniteSets, TLC

VARIABLES
    feed,                      \* environment: the 'features' list the feed URL serves
    geo,                       \* environment: the geocoder's answer per coordinates
    pc,                        \* position of the process
    earthquakes,               \* local of the filter: the reversed feed
    j,                         \* filter loop: index of the next entry of earthquakes
    i,                         \* log_earthquakes loop variable (0-based, as range())
    acc,                       \* the list comprehension's result under construction
    filtered_earthquakes,      \* self.filtered_earthquakes
    filtered_earthquakes_log,  \* self.filtered_earthquakes_log
    stdout,                    \* lines printed by the process
    requests,                  \* coordinates of the geocoder requests of the current call
    responses,                 \* responses received by the process, in order
    calls,                     \* calls of log_earthquakes begun on the instance
    call_start,                \* Len(stdout) when the current call began
    run,                       \* 1 = first process, 2 = second process
    prev_stdout,               \* stdout of the first process, once it ended
    prev_responses             \* responses of the first process, once it ended

vars == <<feed, geo, pc, earthquakes, j, i, acc, filtered_earthquakes,
          filtered_earthquakes_log, stdout, requests, responses, calls,
          call_start, run, prev_stdout, prev_responses>>

-----------------------------------------------------------------------------
(* Bounds *)

MaxFeed == 3        \* entries in a feed document
MaxCalls == 2       \* calls of log_earthquakes on one instance
MaxPlaceLen == 2    \* characters of a generated place text
MaxPad == 1         \* known entries before and after the probed entry (text filter)

-----------------------------------------------------------------------------
(* JSON values and text *)

Null == [t |-> "null"]
JInt(n) == [t |-> "int", v |-> n]
JStr(q) == [t |-> "str", s |-> q]
JFloat(w, f) == [t |-> "float", whole |-> w, frac |-> f]

Digit(d) == <<"0", "1", "2", "3", "4", "5", "6", "7", "8", "9">>[d + 1]

RECURSIVE NatStr(_)
NatStr(n) == IF n < 10 THEN <<Digit(n)>> ELSE NatStr(n \div 10) \o <<Digit(n % 10)>>

\* str() of a Python int
IntStr(n) == IF n < 0 THEN <<"-">> \o NatStr(0 - n) ELSE NatStr(n)

\* strftime's zero-padded fields
Pad2(n) == IF n < 10 THEN <<"0">> \o NatStr(n) ELSE NatStr(n)
Pad4(n) == IF n < 10 THEN <<"0", "0", "0">> \o NatStr(n)
           ELSE IF n < 100 THEN <<"0", "0">> \o NatStr(n)
           ELSE IF n < 1000 THEN <<"0">> \o NatStr(n)
           ELSE NatStr(n)

RECURSIVE Flatten(_)
Flatten(ss) == IF ss = <<>> THEN <<>> ELSE Head(ss) \o Flatten(Tail(ss))

RECURSIVE Reverse(_)
\* earthquakes[::-1]
Reverse(s) == IF s = <<>> THEN <<>> ELSE Reverse(Tail(s)) \o <<Head(s)>>

RECURSIVE SeqsUpTo(_, _)
SeqsUpTo(S, n) ==
    IF n = 0 THEN {<<>>}
    ELSE LET shorter == SeqsUpTo(S, n - 1)
         IN  shorter \cup {Append(q, x) : q \in {r \in shorter : Len(r) = n - 1}, x \in S}

-----------------------------------------------------------------------------
(* Instance configuration, __init__ *)

CA == <<"C", "A">>
California == <<"C", "a", "l", "i", "f", "o", "r", "n", "i", "a">>

filter_values == {CA, California}
filter_type == "earthquake"

-----------------------------------------------------------------------------
(* str.split(',') and str.strip() *)

\* the characters str.strip() removes that occur in the modelled texts
Whitespace == {" ", "\t", "\n"}

RECURSIVE SplitFrom(_, _, _)
\* scan q left to right; cur is the piece being read, done the pieces closed by a comma
SplitFrom(q, cur, done) ==
    IF q = <<>> THEN Append(done, cur)
    ELSE IF Head(q) = "," THEN SplitFrom(Tail(q), <<>>, Append(done, cur))
    ELSE SplitFrom(Tail(q), Append(cur, Head(q)), done)

\* place.split(','): always at least one piece
Split(q) == SplitFrom(q, <<>>, <<>>)

\* pieces[0] in place of pieces[-1]
FirstOf(pieces) == pieces[1]

\* pieces[-1]
LastOf(pieces) == pieces[Len(pieces)]

RECURSIVE LStrip(_)
LStrip(q) == IF q # <<>> /\ Head(q) \in Whitespace THEN LStrip(Tail(q)) ELSE q

RECURSIVE RStrip(_)
RStrip(q) == IF q # <<>> /\ q[Len(q)] \in Whitespace
             THEN RStrip(SubSeq(q, 1, Len(q) - 1)) ELSE q

\* lstrip() in place of strip()
LStripOnly(q) == LStrip(q)

\* q.strip()
Strip(q) == RStrip(LStrip(q))

\* quakes['properties']['place'].split(',')[-1].strip()
RegionOf(q) == Strip(LastOf(Split(q)))

-----------------------------------------------------------------------------
(* _convert_time *)

\* civil date of a day count since 1970-01-01 (proleptic Gregorian, as datetime)
CivilFromDays(z0) ==
    LET z   == z0 + 719468
        era == z \div 146097
        doe == z - era * 146097
        yoe == (doe - doe \div 1460 + doe \div 36524 - doe \div 146096) \div 365
        doy == doe - (365 * yoe + yoe \div 4 - yoe \div 100)
        mp  == (5 * doy + 2) \div 153
        d   == doy - (153 * mp + 2) \div 5 + 1
        m   == IF mp < 10 THEN mp + 3 ELSE mp - 9
        y   == yoe + era * 400 + (IF m <= 2 THEN 1 ELSE 0)
    IN  [year |-> y, month |-> m, day |-> d]

\* int(unix_time) raises TypeError on None
TimeRaises(t) == t.t # "int"

\* datetime.fromtimestamp(unix_time/1000, tz=utc).strftime('%Y-%m-%dT%H:%M:%S%z')
\* for an integer number of milliseconds
_convert_time(unix_time) ==
    LET secs == unix_time \div 1000
        days == secs \div 86400
        sod  == secs % 86400
        c    == CivilFromDays(days)
    IN  Pad4(c.year) \o <<"-">> \o Pad2(c.month) \o <<"-">> \o Pad2(c.day) \o <<"T">>
        \o Pad2(sod \div 3600) \o <<":">> \o Pad2((sod % 3600) \div 60) \o <<":">>
        \o Pad2(sod % 60) \o <<"+", "0", "0", "0", "0">>

-----------------------------------------------------------------------------
(* log_earthquakes: one line *)

\* str(quakes['properties']['mag'])
StrMag(m) ==
    IF m.t = "null" THEN <<"N", "o", "n", "e">>
    ELSE IF m.t = "int" THEN IntStr(m.v)
    ELSE IntStr(m.whole) \o <<".">> \o Flatten([k \in 1..Len(m.frac) |-> <<Digit(m.frac[k])>>])

\* str() raising on None, as if the magnitude were converted with float()
FormatRaisesNullMag(q) == q.time.t # "int" \/ q.place.t # "str" \/ q.mag.t = "null"

\* lines 95-98 raise before anything is printed: int(None) in _convert_time,
\* or str + None when place is null
FormatRaises(q) == TimeRaises(q.time) \/ q.place.t # "str"

\* time + ' | ' + place + ' | magnitude : ' + magnitude
LineOf(q) ==
    _convert_time(q.time.v) \o <<" ", "|", " ">> \o q.place.s
    \o <<" ", "|", " ", "m", "a", "g", "n", "i", "t", "u", "d", "e", " ", ":", " ">>
    \o StrMag(q.mag)

-----------------------------------------------------------------------------
(* The environment: feed documents and geocoder answers *)

Error == [t |-> "error"]      \* a request that raised (network, JSON, missing key)
FeedOk == [t |-> "feed"]      \* the feed request returned the document

Nevada == <<"N", "e", "v", "a", "d", "a">>

\* [longitude, latitude, depth]
Coords == {<<-120, 36, 5>>, <<-115, 40, 9>>}

\* the query of _get_location: longitude, latitude, type=neiccatalog
Query(coordinates) ==
    [longitude |-> coordinates[1], latitude |-> coordinates[2], type |-> "neiccatalog"]

Queries == {Query(c) : c \in Coords}

\* location[0]['properties']['name'], or the request raising
Answers == {JStr(CA), JStr(California), JStr(Nevada), Error}

Geos == [Queries -> Answers]

Quake(type, place, mag, time, coordinates) ==
    [type |-> type, place |-> place, mag |-> mag, time |-> time,
     coordinates |-> coordinates]

G == <<"G", ",", " ">>

\* the entries feed documents are built from
Entries ==
    { Quake("earthquake", JStr(G \o California), JInt(1), JInt(2000), <<-120, 36, 5>>),
      Quake("earthquake", JStr(G \o CA), JFloat(2, <<7, 6>>), JInt(1000), <<-115, 40, 9>>),
      Quake("quarry blast", JStr(G \o CA), JInt(-1), JInt(3000), <<-120, 36, 5>>),
      Quake("earthquake", JStr(G \o CA), Null, JInt(86400000), <<-115, 40, 9>>),
      Quake("earthquake", JStr(G \o CA), JInt(2), Null, <<-120, 36, 5>>),
      Quake("earthquake", Null, JFloat(1, <<0>>), JInt(1500), <<-115, 40, 9>>) }

Feeds == SeqsUpTo(Entries, MaxFeed)

-----------------------------------------------------------------------------
(* The program: __init__, log_earthquakes, _filter_earthquakes_by_coordinates *)

\* a try/except around each stage that logs the exception and goes on
OnErrorGoOn(at) == IF at \in {"fetch", "filter"} THEN "print" ELSE "done"

\* no try/except anywhere: an exception raised at any position ends the process
OnError(at) == "aborted"

\* the list defined once at class level and shared by the instances
InitFilteredShared(shared) == shared

\* line 39: every instance starts with its own empty list
InitFiltered(shared) == <<>>

\* the lookup made only after the type test passed
LookupsForCandidates(q) == IF q.type = filter_type THEN <<Query(q.coordinates)>> ELSE <<>>

\* line 63: the lookup is made for every entry before the type is looked at
LookupsFor(q) == <<Query(q.coordinates)>>

\* the type test left out
AcceptsAnyType(q, location) == location \in filter_values

\* line 64
Accepts(q, location) == q.type = filter_type /\ location \in filter_values

\* the list walked from its end
EntryAtFromEnd(k) == filtered_earthquakes[Len(filtered_earthquakes) - k]

\* line 95-97: self.filtered_earthquakes[i]
EntryAt(k) == filtered_earthquakes[k + 1]

Init ==
    /\ feed \in Feeds
    /\ geo \in Geos
    /\ pc = "main"
    /\ earthquakes = <<>>
    /\ j = 1
    /\ i = 0
    /\ acc = <<>>
    /\ filtered_earthquakes = InitFiltered(<<>>)
    /\ filtered_earthquakes_log = <<>>
    /\ stdout = <<>>
    /\ requests = <<>>
    /\ responses = <<>>
    /\ calls = 0
    /\ call_start = 0
    /\ run = 1
    /\ prev_stdout = <<>>
    /\ prev_responses = <<>>

env == <<feed, geo, run, prev_stdout, prev_responses>>

\* log_earthquakes is entered (line 90)
Enter ==
    /\ calls' = calls + 1
    /\ call_start' = Len(stdout)
    /\ requests' = <<>>
    /\ pc' = "fetch"
    /\ UNCHANGED <<env, earthquakes, j, i, acc, filtered_earthquakes,
                   filtered_earthquakes_log, stdout, responses>>

\* lines 103-104: the first call on the new instance
Main ==
    /\ pc = "main"
    /\ Enter

\* a further call of log_earthquakes on the same instance
CallAgain ==
    /\ pc = "done"
    /\ calls < MaxCalls
    /\ Enter

\* line 58: json.load(urlopen(self.usgs_url))['features'], then line 61
Fetch ==
    /\ pc = "fetch"
    /\ \/ /\ responses' = Append(responses, FeedOk)
          /\ earthquakes' = Reverse(feed)
          /\ j' = 1
          /\ pc' = "filter"
       \/ /\ responses' = Append(responses, Error)
          /\ pc' = OnError("fetch")
          /\ UNCHANGED <<earthquakes, j>>
    /\ UNCHANGED <<env, i, acc, filtered_earthquakes, filtered_earthquakes_log,
                   stdout, requests, calls, call_start>>

\* lines 62-65: one iteration of the for loop
FilterStep ==
    /\ pc = "filter"
    /\ j <= Len(earthquakes)
    /\ LET quakes   == earthquakes[j]
           location == geo[Query(quakes.coordinates)]
       IN  /\ requests' = requests \o LookupsFor(quakes)
           /\ responses' = Append(responses, location)
           /\ IF location = Error
              THEN /\ pc' = OnError("filter")
                   /\ UNCHANGED <<j, filtered_earthquakes>>
              ELSE /\ filtered_earthquakes' =
                        IF Accepts(quakes, location.s)
                        THEN Append(filtered_earthquakes, quakes)
                        ELSE filtered_earthquakes
                   /\ j' = j + 1
                   /\ pc' = "filter"
    /\ UNCHANGED <<env, earthquakes, i, acc, filtered_earthquakes_log, stdout,
                   calls, call_start>>

\* line 66, then line 94: range(len(self.filtered_earthquakes))
FilterReturn ==
    /\ pc = "filter"
    /\ j > Len(earthquakes)
    /\ i' = 0
    /\ pc' = "print"
    /\ UNCHANGED <<env, earthquakes, j, acc, filtered_earthquakes,
                   filtered_earthquakes_log, stdout, requests, responses, calls,
                   call_start>>

\* lines 95-99: one iteration of the for loop
PrintStep ==
    /\ pc = "print"
    /\ i < Len(filtered_earthquakes)
    /\ IF FormatRaises(EntryAt(i))
       THEN /\ pc' = OnError("print")
            /\ UNCHANGED <<i, filtered_earthquakes_log, stdout>>
       ELSE /\ filtered_earthquakes_log' = filtered_earthquakes_log \o LineOf(EntryAt(i))
            /\ stdout' = Append(stdout, LineOf(EntryAt(i)))
            /\ i' = i + 1
            /\ pc' = "print"
    /\ UNCHANGED <<env, earthquakes, j, acc, filtered_earthquakes, requests,
                   responses, calls, call_start>>

\* line 100
Return ==
    /\ pc = "print"
    /\ i >= Len(filtered_earthquakes)
    /\ pc' = "done"
    /\ UNCHANGED <<env, earthquakes, j, i, acc, filtered_earthquakes,
                   filtered_earthquakes_log, stdout, requests, responses, calls,
                   call_start>>

\* the program is run a second time: a new process, a new instance; the feed
\* document is the same, the geocoder answers whatever it answers then
NewRun ==
    /\ pc \in {"done", "aborted"}
    /\ run = 1
    /\ calls = 1
    /\ run' = 2
    /\ prev_stdout' = stdout
    /\ prev_responses' = responses
    /\ geo' \in Geos
    /\ pc' = "main"
    /\ earthquakes' = <<>>
    /\ j' = 1
    /\ i' = 0
    /\ filtered_earthquakes' = InitFiltered(filtered_earthquakes)
    /\ filtered_earthquakes_log' = <<>>
    /\ stdout' = <<>>
    /\ requests' = <<>>
    /\ responses' = <<>>
    /\ calls' = 0
    /\ call_start' = 0
    /\ UNCHANGED <<feed, acc>>

Call == Main \/ Fetch \/ FilterStep \/ FilterReturn \/ PrintStep \/ Return

\* one process, log_earthquakes called up to MaxCalls times on its instance
Next == Call \/ CallAgain

Spec == Init /\ [][Next]_vars

\* the program run twice, one call each
NextRuns == Call \/ NewRun

SpecRuns == Init /\ [][NextRuns]_vars

-----------------------------------------------------------------------------
(* The text-match filter, _filter_earthquakes, called on a fresh instance *)

Alphabet == {",", " ", "C", "A"}

\* place texts: every text over Alphabet up to MaxPlaceLen, and some longer ones
Places ==
    SeqsUpTo(Alphabet, MaxPlaceLen)
    \cup { <<",">> \o CA, <<" ">> \o CA \o <<" ">>, G \o CA, G \o California,
           California, <<"\t">> \o California \o <<"\n">>, CA \o <<",">>,
           CA \o <<",", " ">> \o Nevada, G \o CA \o <<",", "\t">> \o CA \o <<"\n">>,
           G \o <<"C", "a">> }

TextEntries ==
    { Quake(ty, pl, JInt(1), JInt(1000), <<-120, 36, 5>>) :
        ty \in {"earthquake", "quarry blast"}, pl \in {JStr(q) : q \in Places} \cup {Null} }

PadEntries ==
    { Quake("earthquake", JStr(G \o California), JInt(1), JInt(2000), <<-115, 40, 9>>),
      Quake("quarry blast", JStr(G \o CA), JInt(2), JInt(3000), <<-115, 40, 9>>) }

Pads == SeqsUpTo(PadEntries, MaxPad)

\* one entry with any place text among up to MaxPad known entries on each side
TextFeeds == {pre \o <<q>> \o post : pre \in Pads, q \in TextEntries, post \in Pads}

\* line 52 raises AttributeError when place is null; line 51 is evaluated first
\* and 'and' skips line 52 for another event type
TextRaises(q) == q.type = filter_type /\ q.place.t # "str"

\* lines 51-52
TextAccepts(q) == q.type = filter_type /\ RegionOf(q.place.s) \in filter_values

InitText ==
    /\ feed \in TextFeeds
    /\ geo = [x \in Queries |-> Error]
    /\ pc = "tfetch"
    /\ earthquakes = <<>>
    /\ j = 1
    /\ i = 0
    /\ acc = <<>>
    /\ filtered_earthquakes = InitFiltered(<<>>)
    /\ filtered_earthquakes_log = <<>>
    /\ stdout = <<>>
    /\ requests = <<>>
    /\ responses = <<>>
    /\ calls = 0
    /\ call_start = 0
    /\ run = 1
    /\ prev_stdout = <<>>
    /\ prev_responses = <<>>

\* line 44, then line 47
TextFetch ==
    /\ pc = "tfetch"
    /\ \/ /\ responses' = Append(responses, FeedOk)
          /\ earthquakes' = Reverse(feed)
          /\ j' = 1
          /\ acc' = <<>>
          /\ pc' = "tfilter"
       \/ /\ responses' = Append(responses, Error)
          /\ pc' = OnError("tfetch")
          /\ UNCHANGED <<earthquakes, j, acc>>
    /\ UNCHANGED <<env, i, filtered_earthquakes, filtered_earthquakes_log, stdout,
                   requests, calls, call_start>>

\* lines 50-53: the list comprehension takes one entry
TextStep ==
    /\ pc = "tfilter"
    /\ j <= Len(earthquakes)
    /\ LET quakes == earthquakes[j]
       IN  IF TextRaises(quakes)
           THEN /\ pc' = OnError("tfilter")
                /\ UNCHANGED <<j, acc>>
           ELSE /\ acc' = IF TextAccepts(quakes) THEN Append(acc, quakes) ELSE acc
                /\ j' = j + 1
                /\ pc' = "tfilter"
    /\ UNCHANGED <<env, earthquakes, i, filtered_earthquakes, filtered_earthquakes_log,
                   stdout, requests, responses, calls, call_start>>

\* line 50: the finished list is assigned; line 54
TextReturn ==
    /\ pc = "tfilter"
    /\ j > Len(earthquakes)
    /\ filtered_earthquakes' = acc
    /\ pc' = "tdone"
    /\ UNCHANGED <<env, earthquakes, j, i, acc, filtered_earthquakes_log, stdout,
                   requests, responses, calls, call_start>>

NextText == TextFetch \/ TextStep \/ TextReturn

SpecText == InitText /\ [][NextText]_vars

-----------------------------------------------------------------------------
(* Vocabulary of the properties, stated without the program's own helpers *)

InSeq(x, q) == \E k \in 1..Len(q) : q[k] = x

IsPrefix(p, q) == Len(p) <= Len(q) /\ SubSeq(q, 1, Len(p)) = p

EndsWith(q, suffix) ==
    Len(suffix) <= Len(q) /\ SubSeq(q, Len(q) - Len(suffix) + 1, Len(q)) = suffix

HasError(rs) == \E k \in 1..Len(rs) : rs[k] = Error

HasComma(q) == \E k \in 1..Len(q) : q[k] = ","

\* the text after the last comma of q, for a q that has one
AfterLastComma(q) ==
    LET last == CHOOSE k \in 1..Len(q) :
                    q[k] = "," /\ \A m \in (k + 1)..Len(q) : q[m] # ","
    IN  SubSeq(q, last + 1, Len(q))

\* q without its leading and trailing whitespace
Trimmed(q) ==
    LET ink == {k \in 1..Len(q) : q[k] \notin Whitespace}
    IN  IF ink = {} THEN <<>>
        ELSE SubSeq(q, CHOOSE k \in ink : \A m \in ink : k <= m,
                       CHOOSE k \in ink : \A m \in ink : k >= m)

Regions == {CA, California}

\* the region name the geocoder gives for entry q is one of the two labels
InRegion(q) == geo[Query(q.coordinates)] \in {JStr(r) : r \in Regions}

\* positions of the feed that match type and region under the geocoder's answers
Matching == {k \in 1..Len(feed) : feed[k].type = "earthquake" /\ InRegion(feed[k])}

\* lines the current call has printed
LinesOfCall == Len(stdout) - call_start

Filtered == pc \in {"print", "done"}

Ended == pc \in {"done", "aborted"}

-----------------------------------------------------------------------------
(* C1 *)

\* C1: after _filter_earthquakes_by_coordinates returned on a fresh instance, a
\* feed entry is in filtered_earthquakes if and only if its type is 'earthquake'
\* and the geocoder's region name for its coordinates is 'CA' or 'California';
\* every entry of the result has type 'earthquake'.
C1_GeocodeFilter ==
    (calls = 1 /\ Filtered) =>
        /\ \A k \in 1..Len(feed) :
              InSeq(feed[k], filtered_earthquakes)
                  <=> (feed[k].type = "earthquake" /\ InRegion(feed[k]))
        /\ \A m \in 1..Len(filtered_earthquakes) :
              /\ filtered_earthquakes[m].type = "earthquake"
              /\ InSeq(filtered_earthquakes[m], feed)

C1_Witness ==
    /\ calls = 1
    /\ pc = "done"
    /\ Len(filtered_earthquakes) = 1
    /\ \E k \in 1..Len(feed) : feed[k].type # "earthquake" /\ InRegion(feed[k])
    /\ \E k \in 1..Len(feed) : feed[k].type = "earthquake" /\ InRegion(feed[k])

-----------------------------------------------------------------------------
(* C2 *)

\* C2 as claimed: after _filter_earthquakes returned, a feed entry is in the
\* result if and only if its type is 'earthquake' and its place has a comma
\* and the text after the last comma, trimmed, is 'CA' or 'California'.
C2_SuffixAfterComma ==
    pc = "tdone" =>
        \A k \in 1..Len(feed) :
            InSeq(feed[k], filtered_earthquakes)
                <=> /\ feed[k].type = "earthquake"
                    /\ feed[k].place.t = "str"
                    /\ HasComma(feed[k].place.s)
                    /\ Trimmed(AfterLastComma(feed[k].place.s)) \in Regions

\* the text the filter compares: after the last comma, or all of it without one
Compared(q) == IF HasComma(q) THEN AfterLastComma(q) ELSE q

\* C2 amended: after _filter_earthquakes returned, a feed entry is in the result
\* if and only if its type is 'earthquake' and the text after the last comma of
\* its place -- the whole place when it has no comma -- trimmed, is 'CA' or
\* 'California'.
C2_SuffixOrWholePlace ==
    pc = "tdone" =>
        \A k \in 1..Len(feed) :
            InSeq(feed[k], filtered_earthquakes)
                <=> /\ feed[k].type = "earthquake"
                    /\ feed[k].place.t = "str"
                    /\ Trimmed(Compared(feed[k].place.s)) \in Regions

C2_Witness ==
    /\ pc = "tdone"
    /\ \E k \in 1..Len(feed) :
          /\ InSeq(feed[k], filtered_earthquakes)
          /\ HasComma(feed[k].place.s)
          /\ Split(feed[k].place.s)[1] # LastOf(Split(feed[k].place.s))
          /\ AfterLastComma(feed[k].place.s) # Trimmed(AfterLastComma(feed[k].place.s))
    /\ \E k \in 1..Len(feed) :
          /\ ~InSeq(feed[k], filtered_earthquakes)
          /\ feed[k].type = "earthquake"

-----------------------------------------------------------------------------
(* C3 *)

\* C3: of two entries printed by a run, the one printed first has the smaller
\* or equal properties.time.
C3_Ascending ==
    (calls = 1 /\ Filtered) =>
        \A a, b \in 1..LinesOfCall :
            a < b => filtered_earthquakes[a].time.v <= filtered_earthquakes[b].time.v

-----------------------------------------------------------------------------
(* C4 *)

\* C4 as claimed: no entry whose place has no comma is in the result of
\* _filter_earthquakes.
C4_NoCommaNeverAccepted ==
    pc = "tdone" =>
        \A m \in 1..Len(filtered_earthquakes) : HasComma(filtered_earthquakes[m].place.s)

\* C4 amended: an entry whose place has no comma is in the result of
\* _filter_earthquakes if and only if its type is 'earthquake' and its whole
\* place, trimmed, is 'CA' or 'California'; any other comma-free entry is left out.
C4_NoCommaWholePlace ==
    pc = "tdone" =>
        \A k \in 1..Len(feed) :
            (feed[k].place.t = "str" /\ ~HasComma(feed[k].place.s)) =>
                (InSeq(feed[k], filtered_earthquakes)
                    <=> /\ feed[k].type = "earthquake"
                        /\ Trimmed(feed[k].place.s) \in Regions)

C4_Witness ==
    /\ pc = "tdone"
    /\ \E m \in 1..Len(filtered_earthquakes) :
          /\ ~HasComma(filtered_earthquakes[m].place.s)
          /\ filtered_earthquakes[m].place.s \notin Regions
    /\ \E k \in 1..Len(feed) : ~InSeq(feed[k], filtered_earthquakes)

-----------------------------------------------------------------------------
(* C5 *)

Fetched(rs) == rs # <<>> /\ rs[1] = FeedOk

\* C5 as claimed: two runs of the program that got the same feed document
\* print the same lines.
C5_SameFeedSameOutput ==
    (run = 2 /\ Ended /\ Fetched(responses) /\ Fetched(prev_responses)) =>
        stdout = prev_stdout

\* C5 amended: two runs of the program that got the same feed document and the
\* same answer from the geocoder to every lookup print the same lines.
C5_SameResponsesSameOutput ==
    (run = 2 /\ Ended /\ responses = prev_responses) => stdout = prev_stdout

C5_Witness ==
    /\ run = 2
    /\ pc = "done"
    /\ responses = prev_responses
    /\ Len(responses) = 3
    /\ Len(stdout) = 1
    /\ stdout = prev_stdout

-----------------------------------------------------------------------------
(* C6 *)

\* the line the format gives for entry q
ClaimedLine(q) ==
    _convert_time(q.time.v) \o <<" ", "|", " ">> \o q.place.s \o <<" ", "|", " ">>
    \o <<"m", "a", "g", "n", "i", "t", "u", "d", "e", " ", ":", " ">> \o StrMag(q.mag)

\* C6: the k-th line a call of log_earthquakes prints is
\* '<time> | <place> | magnitude : <magnitude>' of the k-th entry of
\* filtered_earthquakes, lines are printed in the order of the list, and a call
\* that returns has printed as many lines as the list has entries.
C6_OneLinePerEntry ==
    Filtered =>
        /\ LinesOfCall = i
        /\ i <= Len(filtered_earthquakes)
        /\ \A k \in 1..i :
              /\ filtered_earthquakes[k].time.t = "int"
              /\ filtered_earthquakes[k].place.t = "str"
              /\ stdout[call_start + k] = ClaimedLine(filtered_earthquakes[k])
        /\ pc = "done" => i = Len(filtered_earthquakes)

C6_Witness ==
    /\ pc = "done"
    /\ calls = 1
    /\ LinesOfCall = 2
    /\ stdout[1] # stdout[2]

-----------------------------------------------------------------------------
(* C7 *)

\* C7 as claimed: no line is printed for an entry whose magnitude is null.
C7_NullMagNotPrinted ==
    calls = 1 =>
        \A k \in 1..LinesOfCall : filtered_earthquakes[k].mag # Null

NoneLine == <<" ", "|", " ", "m", "a", "g", "n", "i", "t", "u", "d", "e", " ", ":", " ",
              "N", "o", "n", "e">>

\* C7 amended: a null magnitude is rendered as 'None' without an error: the
\* entry's line is printed, ending ' | magnitude : None', and the run goes on;
\* a run that stops while printing stops at an entry whose time or place is
\* null, never for a null magnitude.
C7_NullMagPrintedAsNone ==
    calls = 1 =>
        /\ \A k \in 1..LinesOfCall :
              filtered_earthquakes[k].mag = Null => EndsWith(stdout[k], NoneLine)
        /\ (pc = "aborted" /\ ~HasError(responses)) =>
              \/ filtered_earthquakes[LinesOfCall + 1].time = Null
              \/ filtered_earthquakes[LinesOfCall + 1].place = Null
        /\ pc = "done" => LinesOfCall = Len(filtered_earthquakes)

C7_Witness ==
    /\ calls = 1
    /\ pc = "done"
    /\ LinesOfCall = 2
    /\ filtered_earthquakes[1].mag = Null
    /\ filtered_earthquakes[2].mag # Null

-----------------------------------------------------------------------------
(* C8 *)

\* C8: a failed request (the feed, a lookup) or an entry that cannot be
\* formatted ends the run at that step: the failing step prints nothing, the
\* lines printed before it stay, no request is repeated and no step follows.
C8_FailureAborts ==
    [][ /\ IsPrefix(stdout, stdout')
        /\ pc # "aborted"
        /\ pc' = "aborted" => stdout' = stdout /\ filtered_earthquakes' = filtered_earthquakes
        /\ HasError(responses') => pc' = "aborted"
        /\ (pc = "print" /\ i < Len(filtered_earthquakes)
              /\ (filtered_earthquakes[i + 1].time = Null
                    \/ filtered_earthquakes[i + 1].place = Null))
              => pc' = "aborted"
        /\ pc' = "aborted" =>
              \/ Len(responses') = Len(responses) + 1 /\ responses'[Len(responses')] = Error
              \/ pc = "print" /\ responses' = responses
      ]_vars

C8_Witness ==
    /\ calls = 1
    /\ pc = "aborted"
    /\ Len(stdout) = 1
    /\ ~HasError(responses)

-----------------------------------------------------------------------------
(* C9 *)

\* C9 as claimed: a run of _filter_earthquakes_by_coordinates that returned has
\* made as many lookups as the feed has entries of type 'earthquake'.
C9_LookupPerCandidate ==
    Filtered =>
        Len(requests) = Cardinality({k \in 1..Len(feed) : feed[k].type = "earthquake"})

\* C9 amended: a run of _filter_earthquakes_by_coordinates that returned has
\* made one lookup per entry of the feed, whatever the entry's type, in the
\* reversed order of the feed; a run never makes more lookups than the feed
\* has entries.
C9_LookupPerEntry ==
    /\ Len(requests) <= Len(feed)
    /\ Filtered =>
          requests = [k \in 1..Len(feed) |-> Query(feed[Len(feed) + 1 - k].coordinates)]

C9_Witness ==
    /\ pc = "done"
    /\ Len(requests) = 2
    /\ feed[1].type # "earthquake"
    /\ feed[2].type = "earthquake"
    /\ requests[1] # requests[2]

-----------------------------------------------------------------------------
(* C10 *)

\* C10: whenever a call of log_earthquakes has returned, filtered_earthquakes
\* holds one entry per matching entry of the feed, and the call has printed
\* one line per matching entry.
C10_NoDuplicates ==
    pc = "done" =>
        /\ Len(filtered_earthquakes) = Cardinality(Matching)
        /\ LinesOfCall = Cardinality(Matching)

====
